---- MODULE Spec2Model ----
(***************************************************************************)
(* The "random variables from scratch" core of Intro_Hypothesis_Testing:   *)
(* the linear congruential engine (pseudo_uniform_bad, pseudo_uniform_good)*)
(* and the samplers layered on it (pseudo_uniform, pseudo_bernoulli,       *)
(* pseudo_binomial, pseudo_poisson, pseudo_normal, pseudo_exp).  One       *)
(* top-level call runs at a time, and pc is its position.                  *)
(*                                                                         *)
(* Numbers.  Python integers are unbounded, so the engine state is the     *)
(* exact residue; the operators below compute it with intermediates that   *)
(* stay under 2^31 (AddMod, MulDivMod).  A buffer entry x/mod is kept as   *)
(* its numerator x; a rescaled value low+(high-low)*x/mod is kept exactly  *)
(* as int + num/mod.  The Poisson running product P is kept in units of    *)
(* 1/FixOne, each product rounded down.  A value that goes through np.log  *)
(* is kept as the draws it is computed from, with its floating-point class *)
(* (finite, posinf, neginf, nan) and, where it matters, its sign.          *)
(***************************************************************************)
EXTENDS Integers, Sequences, FiniteSets, TLC

\* ---------------------------------------------------------------- bounds
MaxSize == 3
MaxTrials == 2
MaxOutcomes == 2
MaxAlpha == 2
\* probabilities are pn/PDen
PDen == 4

\* ------------------------------------------------------ program constants
BadMult == 5
BadMod == 11
BadSeed == 1
GoodMult == 16807
GoodMod == 2147483647
DefaultSeed == 123456789
DefaultLow == 0
DefaultHigh == 1
BudgetFactor == 5

\* ------------------------------------------------------------ input sets
Mults == {-3, 0, BadMult, GoodMult}
Mods == {1, BadMod, GoodMod}
Seeds == {-7, 0, 3, 8, DefaultSeed}
Sizes == 0..MaxSize
Lows == {-5, 0, 2, 5}
Highs == {1, 2, 7}
PNums == (-1)..(PDen + PDen \div 2)
Mus == {0, 3}
Sigmas == {-1, 0, 2}
Lambs == {-1, 0, 1, 2}

VARIABLES pc, call, eng, x, U, i, seeds, acc, X, P, j, ret, memo, other

vars == <<pc, call, eng, x, U, i, seeds, acc, X, P, j, ret, memo, other>>

\* --------------------------------------------------- exact arithmetic
\* (a + b) mod m for 0 <= a, b < m
AddMod(a, b, m) == IF a >= m - b THEN a - (m - b) ELSE a + b

\* one binary long-multiplication step: <<q, r>> -> 2*<<q, r>> + bit*xx
MulStep(h, bit, xx, m) ==
    LET q == IF h[2] >= m - h[2] THEN 2 * h[1] + 1 ELSE 2 * h[1]
        r == IF h[2] >= m - h[2] THEN h[2] - (m - h[2]) ELSE 2 * h[2]
    IN  IF bit = 0 THEN <<q, r>>
        ELSE IF r >= m - xx THEN <<q + 1, r - (m - xx)>> ELSE <<q, r + xx>>
\* four steps: <<q, r>> -> 16*<<q, r>> + d*xx, for a hexadecimal digit d;
\* each step is a value before the next one reads it
MulDigit(h, d, xx, m) ==
    CHOOSE r \in
        {MulStep(h3, d % 2, xx, m) :
           h3 \in {MulStep(h2, (d \div 2) % 2, xx, m) :
              h2 \in {MulStep(h1, (d \div 4) % 2, xx, m) :
                 h1 \in {MulStep(h, (d \div 8) % 2, xx, m)}}}} : TRUE
\* digit by digit of a from the most significant
RECURSIVE MulDigits(_, _, _)
MulDigits(xx, a, m) ==
    IF a = 0 THEN <<0, 0>>
    ELSE CHOOSE r \in {MulDigit(h, a % 16, xx, m) :
                          h \in {MulDigits(xx, a \div 16, m)}} : TRUE
\* <<q, r>> with xx * a = q * m + r and 0 <= r < m, for 0 <= xx < m, a >= 0
MulDivMod(xx, a, m) ==
    CHOOSE r \in {MulDigits(xv, av, mv) :
                    xv \in {xx}, av \in {a}, mv \in {m}} : TRUE

\* the product x*mult before the reduction, as <<hi, lo>> with
\* xx * a = hi * 2^31 + lo and 0 <= lo < 2^31, for 0 <= xx < 2^31 - 1, a >= 0
ProductParts(xx, a) ==
    LET qr == MulDivMod(xx, a, 2147483647)
    IN  IF qr[2] >= qr[1] THEN <<qr[1], qr[2] - qr[1]>>
        ELSE <<qr[1] - 1, ((qr[2] - qr[1]) + 2147483647) + 1>>
RECURSIVE BitLen(_)
BitLen(n) == IF n = 0 THEN 0 ELSE 1 + BitLen(n \div 2)
\* the number of bits x*mult takes
ProductBits(xx, a) ==
    LET p == ProductParts(xx, a)
    IN  IF p[1] > 0 THEN 31 + BitLen(p[1]) ELSE BitLen(p[2])

\* x = (x*mult+1)%mod with Python's floored % (mod > 0)
LcgNextQuotient(xx, mult, mod) == MulDivMod(xx % mod, mult % mod, mod)[1] % mod
LcgNextNarrow(xx, mult, mod) ==
    AddMod(ProductParts(xx % mod, mult % mod)[2] % mod, 1 % mod, mod)
LcgNextNoWrap(xx, mult, mod) == MulDivMod(xx % mod, mult % mod, mod)[2] + 1
LcgNextNoInc(xx, mult, mod) == MulDivMod(xx % mod, mult % mod, mod)[2]
LcgNext(xx, mult, mod) ==
    AddMod(MulDivMod(xx % mod, mult % mod, mod)[2], 1 % mod, mod)

\* low+(high-low)*(xx/mod), exactly, as int + num/mod with 0 <= num < mod
ScaleDrawNoLow(low, high, xx, mod) ==
    LET qr == MulDivMod(xx, high, mod) IN [int |-> low + qr[1], num |-> qr[2]]
ScaleDraw(low, high, xx, mod) ==
    IF high >= low
      THEN LET qr == MulDivMod(xx, high - low, mod)
           IN  [int |-> low + qr[1], num |-> qr[2]]
      ELSE LET qr == MulDivMod(xx, low - high, mod)
           IN  IF qr[2] = 0 THEN [int |-> low - qr[1], num |-> 0]
               ELSE [int |-> low - qr[1] - 1, num |-> mod - qr[2]]

\* low+(high-low)*pseudo_uniform_good(seed=seed,size=size), elementwise
Rescale(low, high, buf, mod) ==
    [k \in 1..Len(buf) |-> ScaleDraw(low, high, buf[k], mod)]

NoCall == [fn |-> "none"]
NoEng == [mult |-> 0, mod |-> 1, seed |-> 0, size |-> 0]
NoRet == [status |-> "none", value |-> <<>>]
NoMemo == [set |-> FALSE]
Unset == -1
\* the frame of a call that has not started, and the suspended call of the
\* interleaved runs: its frame, whether it was suspended in the middle of
\* its run (cut), and the same mark for the running call (mine)
IdleFrame ==
    [pc |-> "idle", call |-> NoCall, eng |-> NoEng, x |-> Unset, U |-> <<>>,
     i |-> 0, seeds |-> <<>>, acc |-> <<>>, X |-> 0, P |-> 0, j |-> 0,
     ret |-> NoRet]
NoOther == [fr |-> IdleFrame, cut |-> FALSE, mine |-> FALSE]

Init ==
    /\ pc = "idle"
    /\ call = NoCall
    /\ eng = NoEng
    /\ x = Unset
    /\ U = <<>>
    /\ i = 0
    /\ seeds = <<>>
    /\ acc = <<>>
    /\ X = 0
    /\ P = 0
    /\ j = 0
    /\ ret = NoRet
    /\ memo = NoMemo
    /\ other = NoOther

\* an exception leaves the top-level call
Raise(err) ==
    /\ pc' = "done"
    /\ ret' = [status |-> err, value |-> <<>>]

\* the clock reading t = whole seconds + frac * 10^-9
ClockFracs == {62719, 88636, DefaultSeed, 739806647, 999999999}
ClockReadings == {[sec |-> s, frac |-> f] : s \in {0, 7}, f \in ClockFracs}
\* seed = int(10**9*float(str(t-int(t))[0:]))
SeedOfClock(t) == t.frac

EngineStartFromClock(mult, mod, seed, size, next) ==
    /\ eng' = [mult |-> mult, mod |-> mod, seed |-> seed, size |-> size]
    /\ IF size <= 0
         THEN /\ UNCHANGED <<x, U, i>>
              /\ Raise("IndexError")
         ELSE /\ \E s \in {t.sec : t \in ClockReadings} :
                    x' = LcgNext(seed + s, mult, mod)
              /\ U' = [k \in 1..size |-> IF k = 1 THEN x' ELSE 0]
              /\ i' = 1
              /\ pc' = next
              /\ ret' = NoRet
\* U = np.zeros(size); x = (seed*mult+1)%mod; U[0] = x/mod
EngineStart(mult, mod, seed, size, next) ==
    /\ eng' = [mult |-> mult, mod |-> mod, seed |-> seed, size |-> size]
    /\ IF size < 0
         THEN /\ UNCHANGED <<x, U, i>>
              /\ Raise("ValueError")
         ELSE IF size = 0
         THEN /\ x' = LcgNext(seed, mult, mod)
              /\ U' = <<>>
              /\ i' = 0
              /\ Raise("IndexError")
         ELSE /\ x' = LcgNext(seed, mult, mod)
              /\ U' = [k \in 1..size |-> IF k = 1 THEN x' ELSE 0]
              /\ i' = 1
              /\ pc' = next
              /\ ret' = NoRet

\* pseudo_uniform_bad(mult, mod, seed, size) / pseudo_uniform_good(...)
CallEngine ==
    /\ pc = "idle"
    /\ \E fn \in {"pseudo_uniform_bad", "pseudo_uniform_good"},
          mult \in Mults, mod \in Mods, seed \in Seeds, size \in Sizes :
          /\ call' = [fn |-> fn, mult |-> mult, mod |-> mod,
                      seed |-> seed, size |-> size]
          /\ EngineStart(mult, mod, seed, size, "engine")
    /\ seeds' = <<>>
    /\ acc' = <<>>
    /\ UNCHANGED <<X, P, j, memo, other>>

\* pseudo_uniform(low, high, seed, size)
CallUniform ==
    /\ pc = "idle"
    /\ \E low \in Lows, high \in Highs, seed \in Seeds, size \in Sizes :
          /\ call' = [fn |-> "pseudo_uniform", low |-> low, high |-> high,
                      seed |-> seed, size |-> size]
          /\ EngineStart(GoodMult, GoodMod, seed, size, "engine")
    /\ seeds' = <<>>
    /\ acc' = <<>>
    /\ UNCHANGED <<X, P, j, memo, other>>

EngineLoopStuck ==
    /\ pc = "engine"
    /\ i < eng.size
    /\ x' = LcgNext(x, eng.mult, eng.mod)
    /\ U' = [U EXCEPT ![i + 1] = x']
    /\ i' = i
    /\ UNCHANGED <<pc, call, eng, seeds, acc, X, P, j, ret, memo, other>>
\* for i in range(1,size): x = (x*mult+1)%mod; U[i] = x/mod
EngineLoop ==
    /\ pc = "engine"
    /\ i < eng.size
    /\ x' = LcgNext(x, eng.mult, eng.mod)
    /\ U' = [U EXCEPT ![i + 1] = x']
    /\ i' = i + 1
    /\ UNCHANGED <<pc, call, eng, seeds, acc, X, P, j, ret, memo, other>>

\* return U, to the top level
ReturnEngine ==
    /\ pc = "engine"
    /\ i = eng.size
    /\ call.fn \in {"pseudo_uniform_bad", "pseudo_uniform_good"}
    /\ ret' = [status |-> "ok", value |-> U]
    /\ pc' = "done"
    /\ UNCHANGED <<call, eng, x, U, i, seeds, acc, X, P, j, memo, other>>

\* return low+(high-low)*U, to the top level
ReturnUniform ==
    /\ pc = "engine"
    /\ i = eng.size
    /\ call.fn = "pseudo_uniform"
    /\ ret' = [status |-> "ok",
               value |-> Rescale(call.low, call.high, U, eng.mod)]
    /\ pc' = "done"
    /\ UNCHANGED <<call, eng, x, U, i, seeds, acc, X, P, j, memo, other>>

\* p as PNum/PDen: is int + num/mod <= pn/pd ?
LeqProb(u, pn, pd, mod) ==
    LET c == pn - u.int * pd
        qr == MulDivMod(u.num, pd, mod)
    IN  IF c < 0 THEN FALSE
        ELSE IF c >= pd THEN TRUE
        ELSE qr[1] < c \/ (qr[1] = c /\ qr[2] = 0)

\* (B<=p).astype(int)
IndicatorStrict(u, pn, pd, mod) ==
    LET c == pn - u.int * pd
        qr == MulDivMod(u.num, pd, mod)
    IN  IF c > 0 /\ (c >= pd \/ qr[1] < c) THEN 1 ELSE 0
Indicator(u, pn, pd, mod) == IF LeqProb(u, pn, pd, mod) THEN 1 ELSE 0

SumSeqLen(s) == Len(s)
RECURSIVE SumSeq(_)
SumSeq(s) == IF s = <<>> THEN 0 ELSE s[1] + SumSeq(Tail(s))

\* pseudo_bernoulli(p, size): clock read, then pseudo_uniform(seed, size)
CallBernoulli ==
    /\ pc = "idle"
    /\ \E pn \in PNums, size \in Sizes, t \in ClockReadings :
          /\ call' = [fn |-> "pseudo_bernoulli", pn |-> pn, size |-> size]
          /\ seeds' = <<SeedOfClock(t)>>
          /\ EngineStart(GoodMult, GoodMod, SeedOfClock(t), size, "engine")
    /\ acc' = <<>>
    /\ UNCHANGED <<X, P, j, memo, other>>

\* B = (B<=p).astype(int); return B
ReturnBernoulli ==
    /\ pc = "engine"
    /\ i = eng.size
    /\ call.fn = "pseudo_bernoulli"
    /\ LET B == Rescale(DefaultLow, DefaultHigh, U, eng.mod)
       IN  ret' = [status |-> "ok",
                   value |-> [k \in 1..Len(B) |->
                                Indicator(B[k], call.pn, PDen, eng.mod)]]
    /\ pc' = "done"
    /\ UNCHANGED <<call, eng, x, U, i, seeds, acc, X, P, j, memo, other>>

\* pseudo_binomial(n, p, size): binom = []
CallBinomial ==
    /\ pc = "idle"
    /\ \E n \in (-1)..MaxTrials, pn \in PNums, size \in 0..MaxOutcomes :
          call' = [fn |-> "pseudo_binomial", n |-> n, pn |-> pn,
                   size |-> size]
    /\ acc' = <<>>
    /\ seeds' = <<>>
    /\ pc' = "bin_for"
    /\ UNCHANGED <<eng, x, U, i, X, P, j, ret, memo, other>>

\* for _ in range(size): clock read; U = pseudo_uniform(size=n,seed=seed)
BinomialIter ==
    /\ pc = "bin_for"
    /\ Len(acc) < call.size
    /\ \E t \in ClockReadings :
          /\ seeds' = Append(seeds, SeedOfClock(t))
          /\ EngineStart(GoodMult, GoodMod, SeedOfClock(t), call.n, "engine")
    /\ UNCHANGED <<call, acc, X, P, j, memo, other>>

\* Y = (U <= p).astype(int); binom.append(np.sum(Y))
BinomialSum ==
    /\ pc = "engine"
    /\ i = eng.size
    /\ call.fn = "pseudo_binomial"
    /\ LET B == Rescale(DefaultLow, DefaultHigh, U, eng.mod)
           Y == [k \in 1..Len(B) |-> Indicator(B[k], call.pn, PDen, eng.mod)]
       IN  acc' = Append(acc, SumSeq(Y))
    /\ pc' = "bin_for"
    /\ UNCHANGED <<call, eng, x, U, i, seeds, X, P, j, ret, memo, other>>

\* return binom
ReturnBinomial ==
    /\ pc = "bin_for"
    /\ Len(acc) = call.size
    /\ ret' = [status |-> "ok", value |-> acc]
    /\ pc' = "done"
    /\ UNCHANGED <<call, eng, x, U, i, seeds, acc, X, P, j, memo, other>>

\* the running product P, in units of 1/FixOne
FixOne == 1073741824
\* np.exp(-alpha), in units of 1/FixOne
ExpNeg(alpha) ==
    CASE alpha = 0 -> FixOne
      [] alpha = 1 -> 395007542
      [] alpha = 2 -> 145315154
      [] alpha = 3 -> 53458458
      [] alpha = 4 -> 19666268
      [] alpha = 5 -> 7234816
      [] OTHER -> 2661540
\* U[i]*P
FixMul(u, p, mod) == u.int * p + MulDivMod(u.num, p, mod)[1]

\* pseudo_poisson(alpha, size): poisson = []
CallPoisson ==
    /\ pc = "idle"
    /\ \E alpha \in -1..MaxAlpha, size \in 0..MaxOutcomes :
          call' = [fn |-> "pseudo_poisson", alpha |-> alpha, size |-> size]
    /\ acc' = <<>>
    /\ seeds' = <<>>
    /\ pc' = "poi_for"
    /\ UNCHANGED <<eng, x, U, i, X, P, j, ret, memo, other>>

PoissonIterFloor ==
    /\ pc = "poi_for"
    /\ Len(acc) < call.size
    /\ \E t \in ClockReadings :
          /\ seeds' = Append(seeds, SeedOfClock(t))
          /\ EngineStart(GoodMult, GoodMod, SeedOfClock(t),
                         IF call.alpha <= 0 THEN 1
                         ELSE BudgetFactor * call.alpha, "engine")
    /\ UNCHANGED <<call, acc, X, P, j, memo, other>>
\* for _ in range(size): clock read; U = pseudo_uniform(seed=seed,size=5*alpha)
PoissonIter ==
    /\ pc = "poi_for"
    /\ Len(acc) < call.size
    /\ \E t \in ClockReadings :
          /\ seeds' = Append(seeds, SeedOfClock(t))
          /\ EngineStart(GoodMult, GoodMod, SeedOfClock(t),
                         BudgetFactor * call.alpha, "engine")
    /\ UNCHANGED <<call, acc, X, P, j, memo, other>>

PoissonDrawsFromZero ==
    /\ pc = "engine"
    /\ i = eng.size
    /\ call.fn = "pseudo_poisson"
    /\ X' = 0
    /\ P' = 0
    /\ j' = 0
    /\ pc' = "poi_while"
    /\ UNCHANGED <<call, eng, x, U, i, seeds, acc, ret, memo, other>>
PoissonDrawsFromOne ==
    /\ pc = "engine"
    /\ i = eng.size
    /\ call.fn = "pseudo_poisson"
    /\ X' = 1
    /\ P' = FixOne
    /\ j' = 0
    /\ pc' = "poi_while"
    /\ UNCHANGED <<call, eng, x, U, i, seeds, acc, ret, memo, other>>
\* X,P,i = 0,1,0
PoissonDraws ==
    /\ pc = "engine"
    /\ i = eng.size
    /\ call.fn = "pseudo_poisson"
    /\ X' = 0
    /\ P' = FixOne
    /\ j' = 0
    /\ pc' = "poi_while"
    /\ UNCHANGED <<call, eng, x, U, i, seeds, acc, ret, memo, other>>

PoissonWhileTruncating ==
    /\ pc = "poi_while"
    /\ P >= ExpNeg(call.alpha)
    /\ IF j >= Len(U)
         THEN /\ acc' = Append(acc, X)
              /\ pc' = "poi_for"
              /\ UNCHANGED <<X, P, j, ret>>
         ELSE /\ P' = FixMul(Rescale(DefaultLow, DefaultHigh, U, eng.mod)[j + 1],
                             P, eng.mod)
              /\ X' = X + 1
              /\ j' = j + 1
              /\ UNCHANGED <<pc, ret, acc>>
    /\ UNCHANGED <<call, eng, x, U, i, seeds, memo, other>>
\* while P >= np.exp(-alpha): P = U[i]*P; X+=1; i+=1
PoissonWhile ==
    /\ pc = "poi_while"
    /\ P >= ExpNeg(call.alpha)
    /\ IF j >= Len(U)
         THEN /\ Raise("IndexError")
              /\ UNCHANGED <<X, P, j>>
         ELSE /\ P' = FixMul(Rescale(DefaultLow, DefaultHigh, U, eng.mod)[j + 1],
                             P, eng.mod)
              /\ X' = X + 1
              /\ j' = j + 1
              /\ UNCHANGED <<pc, ret>>
    /\ UNCHANGED <<call, eng, x, U, i, seeds, acc, memo, other>>

\* poisson.append(X)
PoissonAppend ==
    /\ pc = "poi_while"
    /\ P < ExpNeg(call.alpha)
    /\ acc' = Append(acc, X)
    /\ pc' = "poi_for"
    /\ UNCHANGED <<call, eng, x, U, i, seeds, X, P, j, ret, memo, other>>

\* return np.array(poisson)
ReturnPoisson ==
    /\ pc = "poi_for"
    /\ Len(acc) = call.size
    /\ ret' = [status |-> "ok", value |-> acc]
    /\ pc' = "done"
    /\ UNCHANGED <<call, eng, x, U, i, seeds, acc, X, P, j, memo, other>>

\* ---------------------------------------------------- pseudo_normal
\* a value of Z0 is kept as the pair of draws it is computed from and the
\* floating-point class of the result
\* np.sqrt(-2*np.log(u1)): np.log(0.0) is -inf, so the root is +inf
RootClass(x1) == IF x1 = 0 THEN "inf" ELSE "finite"
\* the sign of np.cos(2*np.pi*u2), from the quarter of the turn u2 is in
CosSign(x2, mod) ==
    IF MulDivMod(x2, 4, mod)[1] \in {0, 3} THEN 1 ELSE -1
\* np.sqrt(-2*np.log(u1))*np.cos(2*np.pi*u2)*sigma+mu
NormalClass(x1, x2, sigma, mod) ==
    IF RootClass(x1) = "finite" THEN "finite"
    ELSE IF sigma = 0 THEN "nan"
    ELSE IF CosSign(x2, mod) * sigma > 0 THEN "posinf"
    ELSE "neginf"

\* pseudo_normal(mu, sigma, size): clock read, U1 = pseudo_uniform(seed1, size)
CallNormal ==
    /\ pc = "idle"
    /\ \E mu \in Mus, sigma \in Sigmas, size \in Sizes, t \in ClockReadings :
          /\ call' = [fn |-> "pseudo_normal", mu |-> mu, sigma |-> sigma,
                      size |-> size]
          /\ seeds' = <<SeedOfClock(t)>>
          /\ EngineStart(GoodMult, GoodMod, SeedOfClock(t), size, "engine")
    /\ acc' = <<>>
    /\ UNCHANGED <<X, P, j, memo, other>>

NormalSecondSameSeed ==
    /\ pc = "engine"
    /\ i = eng.size
    /\ call.fn = "pseudo_normal"
    /\ acc = <<>>
    /\ acc' = U
    /\ seeds' = seeds
    /\ EngineStart(GoodMult, GoodMod, seeds[1], call.size, "engine")
    /\ UNCHANGED <<call, X, P, j, memo, other>>
\* U1 is kept in acc; clock read, U2 = pseudo_uniform(seed2, size)
NormalSecond ==
    /\ pc = "engine"
    /\ i = eng.size
    /\ call.fn = "pseudo_normal"
    /\ Len(seeds) = 1
    /\ acc' = U
    /\ \E t \in ClockReadings :
          /\ seeds' = Append(seeds, SeedOfClock(t))
          /\ EngineStart(GoodMult, GoodMod, SeedOfClock(t), call.size, "engine")
    /\ UNCHANGED <<call, X, P, j, memo, other>>

\* Z0 = np.sqrt(-2*np.log(U1))*np.cos(2*np.pi*U2); Z0 = Z0*sigma+mu; return Z0
ReturnNormal ==
    /\ pc = "engine"
    /\ i = eng.size
    /\ call.fn = "pseudo_normal"
    /\ Len(seeds) = 2
    /\ ret' = [status |-> "ok",
               value |-> [k \in 1..Len(U) |->
                            [cls |-> NormalClass(acc[k], U[k], call.sigma,
                                                 eng.mod),
                             u1 |-> acc[k], u2 |-> U[k]]]]
    /\ pc' = "done"
    /\ UNCHANGED <<call, eng, x, U, i, seeds, acc, X, P, j, memo, other>>

\* ------------------------------------------------------- pseudo_exp
\* 1-U as a numerator over mod
LogArgDirect(xx, mod) == xx
LogArg(xx, mod) == mod - xx
\* np.log(a/mod) for 0 <= a <= mod: its class and its sign
LogClass(a) == IF a = 0 THEN "neginf" ELSE "finite"
LogSign(a, mod) == IF a = mod THEN 0 ELSE -1
\* -(1/lamb)*(np.log(1-U)) for one draw: the argument of the logarithm, the
\* class of the result and its sign
ExpValue(xx, lamb, mod) ==
    LET a == LogArg(xx, mod)
        s == IF lamb > 0 THEN -1 ELSE 1
    IN  [arg |-> a,
         cls |-> IF LogClass(a) = "finite" THEN "finite"
                 ELSE IF s < 0 THEN "posinf" ELSE "neginf",
         sgn |-> s * LogSign(a, mod),
         u |-> xx]

\* pseudo_exp(lamb, size): clock read, U = pseudo_uniform(size, seed)
CallExp ==
    /\ pc = "idle"
    /\ \E lamb \in Lambs, size \in Sizes, t \in ClockReadings :
          /\ call' = [fn |-> "pseudo_exp", lamb |-> lamb, size |-> size]
          /\ seeds' = <<SeedOfClock(t)>>
          /\ EngineStart(GoodMult, GoodMod, SeedOfClock(t), size, "engine")
    /\ acc' = <<>>
    /\ UNCHANGED <<X, P, j, memo, other>>

\* X = -(1/lamb)*(np.log(1-U)); return X.  1/lamb raises for lamb = 0
ReturnExp ==
    /\ pc = "engine"
    /\ i = eng.size
    /\ call.fn = "pseudo_exp"
    /\ IF call.lamb = 0
         THEN Raise("ZeroDivisionError")
         ELSE /\ ret' = [status |-> "ok",
                         value |-> [k \in 1..Len(U) |->
                                      ExpValue(U[k], call.lamb, eng.mod)]]
              /\ pc' = "done"
    /\ UNCHANGED <<call, eng, x, U, i, seeds, acc, X, P, j, memo, other>>

\* the frame of the call and its result are dropped
DropFrame ==
    /\ pc' = "idle"
    /\ call' = NoCall
    /\ eng' = NoEng
    /\ x' = Unset
    /\ U' = <<>>
    /\ i' = 0
    /\ seeds' = <<>>
    /\ acc' = <<>>
    /\ X' = 0
    /\ P' = 0
    /\ j' = 0
    /\ ret' = NoRet

\* the call is over and the notebook goes on
Discard ==
    /\ pc = "done"
    /\ DropFrame
    /\ UNCHANGED <<memo, other>>

Next ==
    \/ CallEngine
    \/ CallUniform
    \/ CallBernoulli
    \/ CallBinomial
    \/ CallPoisson
    \/ EngineLoop
    \/ ReturnEngine
    \/ ReturnUniform
    \/ ReturnBernoulli
    \/ BinomialIter
    \/ BinomialSum
    \/ ReturnBinomial
    \/ PoissonIter
    \/ PoissonDraws
    \/ PoissonWhile
    \/ PoissonAppend
    \/ ReturnPoisson
    \/ CallNormal
    \/ NormalSecond
    \/ ReturnNormal
    \/ CallExp
    \/ ReturnExp
    \/ Discard

Spec == Init /\ [][Next]_vars

\* the statements of the running call, which the interpreter executes one
\* after the other until the call returns or raises
Run ==
    \/ EngineLoop
    \/ ReturnEngine
    \/ ReturnUniform
    \/ ReturnBernoulli
    \/ BinomialIter
    \/ BinomialSum
    \/ ReturnBinomial
    \/ PoissonIter
    \/ PoissonDraws
    \/ PoissonWhile
    \/ PoissonAppend
    \/ ReturnPoisson
    \/ NormalSecond
    \/ ReturnNormal
    \/ ReturnExp

SpecFair == Init /\ [][Next]_vars /\ WF_vars(Run)

\* ------------------------------------------- two calls, interleaved
\* every name a call reads or writes is a local of its own activation
Frame ==
    [pc |-> pc, call |-> call, eng |-> eng, x |-> x, U |-> U, i |-> i,
     seeds |-> seeds, acc |-> acc, X |-> X, P |-> P, j |-> j, ret |-> ret]
InMidRun == pc \notin {"idle", "done"}

SwitchSharedX ==
    /\ other' = [fr |-> Frame, cut |-> other.mine \/ InMidRun,
                 mine |-> other.cut]
    /\ pc' = other.fr.pc
    /\ call' = other.fr.call
    /\ eng' = other.fr.eng
    /\ x' = x
    /\ U' = other.fr.U
    /\ i' = other.fr.i
    /\ seeds' = other.fr.seeds
    /\ acc' = other.fr.acc
    /\ X' = other.fr.X
    /\ P' = other.fr.P
    /\ j' = other.fr.j
    /\ ret' = other.fr.ret
    /\ UNCHANGED memo
\* the running call is suspended between two statements and the other call
\* goes on from where it was
Switch ==
    /\ other' = [fr |-> Frame, cut |-> other.mine \/ InMidRun,
                 mine |-> other.cut]
    /\ pc' = other.fr.pc
    /\ call' = other.fr.call
    /\ eng' = other.fr.eng
    /\ x' = other.fr.x
    /\ U' = other.fr.U
    /\ i' = other.fr.i
    /\ seeds' = other.fr.seeds
    /\ acc' = other.fr.acc
    /\ X' = other.fr.X
    /\ P' = other.fr.P
    /\ j' = other.fr.j
    /\ ret' = other.fr.ret
    /\ UNCHANGED memo

\* the running call is over; its frame goes, and its mark with it
Retire ==
    /\ pc = "done"
    /\ DropFrame
    /\ other' = [other EXCEPT !.mine = FALSE]
    /\ UNCHANGED memo

NextPar ==
    \/ CallBernoulli
    \/ EngineLoop
    \/ ReturnBernoulli
    \/ Switch
    \/ Retire

SpecPar == Init /\ [][NextPar]_vars

\* ------------------------------------------------ the short-period cell
\* U = pseudo_uniform_bad(seed=3,size=1000)
DemoSeed == 3
DemoSize == 1000
CallDemoGood ==
    /\ pc = "idle"
    /\ call' = [fn |-> "pseudo_uniform_good", mult |-> GoodMult,
                mod |-> GoodMod, seed |-> DemoSeed, size |-> DemoSize]
    /\ EngineStart(GoodMult, GoodMod, DemoSeed, DemoSize, "engine")
    /\ seeds' = <<>>
    /\ acc' = <<>>
    /\ UNCHANGED <<X, P, j, memo, other>>
CallDemo ==
    /\ pc = "idle"
    /\ call' = [fn |-> "pseudo_uniform_bad", mult |-> BadMult,
                mod |-> BadMod, seed |-> DemoSeed, size |-> DemoSize]
    /\ EngineStart(BadMult, BadMod, DemoSeed, DemoSize, "engine")
    /\ seeds' = <<>>
    /\ acc' = <<>>
    /\ UNCHANGED <<X, P, j, memo, other>>

NextDemo ==
    \/ CallDemo
    \/ EngineLoop
    \/ ReturnEngine
    \/ Discard

SpecDemo == Init /\ [][NextDemo]_vars

\* ------------------------------------------------ orbits of the engine
\* both shipped configurations, run for one value more than the small
\* modulus, from seeds around it and from the seed whose first state is the
\* largest one, GoodMod - 1
OrbitLen == BadMod + 1
OrbitSeeds == ((-BadMod)..(2 * BadMod)) \cup {1479613294}
CallOrbitOtherMult ==
    /\ pc = "idle"
    /\ \E fn \in {"pseudo_uniform_bad", "pseudo_uniform_good"},
          seed \in OrbitSeeds :
          LET mult == IF fn = "pseudo_uniform_bad" THEN BadMult + 2
                      ELSE GoodMult
              mod == IF fn = "pseudo_uniform_bad" THEN BadMod ELSE GoodMod
          IN  /\ call' = [fn |-> fn, mult |-> mult, mod |-> mod,
                          seed |-> seed, size |-> OrbitLen]
              /\ EngineStart(mult, mod, seed, OrbitLen, "engine")
    /\ seeds' = <<>>
    /\ acc' = <<>>
    /\ UNCHANGED <<X, P, j, memo, other>>
CallOrbit ==
    /\ pc = "idle"
    /\ \E fn \in {"pseudo_uniform_bad", "pseudo_uniform_good"},
          seed \in OrbitSeeds :
          LET mult == IF fn = "pseudo_uniform_bad" THEN BadMult ELSE GoodMult
              mod == IF fn = "pseudo_uniform_bad" THEN BadMod ELSE GoodMod
          IN  /\ call' = [fn |-> fn, mult |-> mult, mod |-> mod,
                          seed |-> seed, size |-> OrbitLen]
              /\ EngineStart(mult, mod, seed, OrbitLen, "engine")
    /\ seeds' = <<>>
    /\ acc' = <<>>
    /\ UNCHANGED <<X, P, j, memo, other>>

NextOrbit ==
    \/ CallOrbit
    \/ EngineLoop
    \/ ReturnEngine
    \/ Discard

SpecOrbit == Init /\ [][NextOrbit]_vars

\* ----------------------------------------------- a run, cut in two
\* three runs of the engine: one of n + m values, kept in other; one of n
\* values from the same arguments, kept in memo; one of m values seeded with
\* the last state of the second
CallLong ==
    /\ pc = "idle"
    /\ other = NoOther
    /\ ~memo.set
    /\ \E fn \in {"pseudo_uniform_bad", "pseudo_uniform_good"},
          mult \in Mults, mod \in Mods, seed \in Seeds, size \in Sizes :
          /\ call' = [fn |-> fn, mult |-> mult, mod |-> mod,
                      seed |-> seed, size |-> size]
          /\ EngineStart(mult, mod, seed, size, "engine")
    /\ seeds' = <<>>
    /\ acc' = <<>>
    /\ UNCHANGED <<X, P, j, memo, other>>

KeepLong ==
    /\ pc = "done"
    /\ other = NoOther
    /\ ~memo.set
    /\ ret.status = "ok"
    /\ call.size >= 2
    /\ other' = [fr |-> Frame, cut |-> FALSE, mine |-> FALSE]
    /\ DropFrame
    /\ UNCHANGED memo

CallPrefix ==
    /\ pc = "idle"
    /\ other.fr.pc = "done"
    /\ ~memo.set
    /\ \E n \in 1..(other.fr.call.size - 1) :
          /\ call' = [other.fr.call EXCEPT !.size = n]
          /\ EngineStart(other.fr.call.mult, other.fr.call.mod,
                         other.fr.call.seed, n, "engine")
    /\ seeds' = <<>>
    /\ acc' = <<>>
    /\ UNCHANGED <<X, P, j, memo, other>>

KeepPrefix ==
    /\ pc = "done"
    /\ other.fr.pc = "done"
    /\ ~memo.set
    /\ memo' = [set |-> TRUE, call |-> call, ret |-> ret]
    /\ DropFrame
    /\ UNCHANGED other

CallReseedSameSeed ==
    /\ pc = "idle"
    /\ other.fr.pc = "done"
    /\ memo.set
    /\ LET c == memo.call
           m == other.fr.call.size - c.size
       IN  /\ call' = [c EXCEPT !.size = m]
           /\ EngineStart(c.mult, c.mod, c.seed, m, "engine")
    /\ seeds' = <<>>
    /\ acc' = <<>>
    /\ UNCHANGED <<X, P, j, memo, other>>
\* the new engine gets the integer state the first one ended on
CallReseed ==
    /\ pc = "idle"
    /\ other.fr.pc = "done"
    /\ memo.set
    /\ LET c == memo.call
           last == memo.ret.value[c.size]
           m == other.fr.call.size - c.size
       IN  /\ call' = [c EXCEPT !.seed = last, !.size = m]
           /\ EngineStart(c.mult, c.mod, last, m, "engine")
    /\ seeds' = <<>>
    /\ acc' = <<>>
    /\ UNCHANGED <<X, P, j, memo, other>>

\* the three runs are dropped
Forget ==
    /\ pc = "done"
    /\ memo.set
    /\ DropFrame
    /\ memo' = NoMemo
    /\ other' = NoOther

NextReseed ==
    \/ CallLong
    \/ EngineLoop
    \/ ReturnEngine
    \/ KeepLong
    \/ CallPrefix
    \/ KeepPrefix
    \/ CallReseed
    \/ Forget
    \/ Discard

SpecReseed == Init /\ [][NextReseed]_vars

\* ------------------------------------------------- two runs, compared
\* an observer keeps one finished run of the engine or of pseudo_uniform
Remember ==
    /\ pc = "done"
    /\ ~memo.set
    /\ call.fn \in {"pseudo_uniform_bad", "pseudo_uniform_good",
                    "pseudo_uniform"}
    /\ memo' = [set |-> TRUE, call |-> call, ret |-> ret]
    /\ UNCHANGED other
    /\ DropFrame

NextDet ==
    \/ CallEngine
    \/ CallUniform
    \/ CallBernoulli
    \/ EngineLoop
    \/ ReturnEngine
    \/ ReturnUniform
    \/ ReturnBernoulli
    \/ Discard
    \/ Remember

SpecDet == Init /\ [][NextDet]_vars

\* ---------------------------------------------------------- references
\* states of the good configuration, from the notebook's own arithmetic
KnownGood(seed) ==
    CASE seed = -7 -> <<2147365999, 170173712, 1808843428, 1452987465, 1323774219, 742715814>>
      [] seed = 0 -> <<1, 16808, 282492057, 1905142130, 742602141, 1886711071>>
      [] seed = 3 -> <<50422, 847442555, 855474982, 565005810, 2027445284, 1149861240>>
      [] seed = 8 -> <<134457, 112335153, 378790759, 1194756806, 1305538993, 1353433953>>
      [] seed = 123456789 -> <<469049722, 2053693165, 2063849572, 963890261, 1634467307, 2028699973>>
      [] seed = 62719 -> <<1054118234, 1972554736, 2022389214, 2071838630, 2092001953, 1674555388>>
      [] seed = 88636 -> <<1489705253, 2111830446, 2072071954, 1718511127, 1508942987, 1170395087>>
      [] seed = 739806647 -> <<0, 1, 16808, 282492057, 1905142130, 742602141>>
      [] seed = 999999999 -> <<792961772, 24988723, 1226156297, 755807068, 483619872, 2121068457>>
KnownLen == Len(KnownGood(DefaultSeed))
\* states of the good configuration for the seeds of SpecOrbit, from the
\* notebook's own arithmetic
KnownOrbit(seed) ==
    CASE seed = -11 ->
           <<2147298771, 1187756363, 1760694077, 1808180127, 1042305793, 1009354373,
             1245619359, 1453975758, 754145494, 474833065, 470091204, 230528316>>
      [] seed = -10 ->
           <<2147315578, 1470231612, 1235860503, 645640138, 38931076, 1479565645,
             1346646903, 764342989, 65439770, 334587127, 1293655644, 1345966481>>
      [] seed = -9 ->
           <<2147332385, 1752706861, 711026929, 1630583796, 1183040006, 1949776917,
             1447674447, 74710220, 1524217693, 194341189, 2117220084, 313920999>>
      [] seed = -8 ->
           <<2147349192, 2035182110, 186193355, 468043807, 179665289, 272504542,
             1548701991, 1532561098, 835511969, 54095251, 793300877, 1429359164>>
      [] seed = -7 ->
           <<2147365999, 170173712, 1808843428, 1452987465, 1323774219, 742715814,
             1649729535, 842928329, 146806245, 2061332960, 1616865317, 397313682>>
      [] seed = -6 ->
           <<2147382806, 452648961, 1284009854, 290447476, 320399502, 1212927086,
             1750757079, 153295560, 1605584168, 1921087022, 292946110, 1512751847>>
      [] seed = -5 ->
           <<2147399613, 735124210, 759176280, 1275391134, 1464508432, 1683138358,
             1851784623, 1611146438, 916878444, 1780841084, 1116510550, 480706365>>
      [] seed = -4 ->
           <<2147416420, 1017599459, 234342706, 112851145, 461133715, 5865983,
             1952812167, 921513669, 228172720, 1640595146, 1940074990, 1596144530>>
      [] seed = -3 ->
           <<2147433227, 1300074708, 1856992779, 1097794803, 1605242645, 476077255,
             2053839711, 231880900, 1686950643, 1500349208, 616155783, 564099048>>
      [] seed = -2 ->
           <<2147450034, 1582549957, 1332159205, 2082738461, 601867928, 946288527,
             7383608, 1689731778, 998244919, 1360103270, 1439720223, 1679537213>>
      [] seed = -1 ->
           <<2147466841, 1865025206, 807325631, 920198472, 1745976858, 1416499799,
             108411152, 1000099009, 309539195, 1219857332, 115801016, 647491731>>
      [] seed = 0 ->
           <<1, 16808, 282492057, 1905142130, 742602141, 1886711071,
             209438696, 310466240, 1768317118, 1079611394, 939365456, 1762929896>>
      [] seed = 1 ->
           <<16808, 282492057, 1905142130, 742602141, 1886711071, 209438696,
             310466240, 1768317118, 1079611394, 939365456, 1762929896, 730884414>>
      [] seed = 2 ->
           <<33615, 564967306, 1380308556, 1727545799, 883336354, 679649968,
             411493784, 1078684349, 390905670, 799119518, 439010689, 1846322579>>
      [] seed = 3 ->
           <<50422, 847442555, 855474982, 565005810, 2027445284, 1149861240,
             512521328, 389051580, 1849683593, 658873580, 1262575129, 814277097>>
      [] seed = 4 ->
           <<67229, 1129917804, 330641408, 1549949468, 1024070567, 1620072512,
             613548872, 1846902458, 1160977869, 518627642, 2086139569, 1929715262>>
      [] seed = 5 ->
           <<84036, 1412393053, 1953291481, 387409479, 20695850, 2090283784,
             714576416, 1157269689, 472272145, 378381704, 762220362, 897669780>>
      [] seed = 6 ->
           <<100843, 1694868302, 1428457907, 1372353137, 1164804780, 413011409,
             815603960, 467636920, 1931050068, 238135766, 1585784802, 2013107945>>
      [] seed = 7 ->
           <<117650, 1977343551, 903624333, 209813148, 161430063, 883222681,
             916631504, 1925487798, 1242344344, 97889828, 261865595, 981062463>>
      [] seed = 8 ->
           <<134457, 112335153, 378790759, 1194756806, 1305538993, 1353433953,
             1017659048, 1235855029, 553638620, 2105127537, 1085430035, 2096500628>>
      [] seed = 9 ->
           <<151264, 394810402, 2001440832, 32216817, 302164276, 1823645225,
             1118686592, 546222260, 2012416543, 1964881599, 1908994475, 1064455146>>
      [] seed = 10 ->
           <<168071, 677285651, 1476607258, 1017160475, 1446273206, 146372850,
             1219714136, 2004073138, 1323710819, 1824635661, 585075268, 32409664>>
      [] seed = 11 ->
           <<184878, 959760900, 951773684, 2002104133, 442898489, 616584122,
             1320741680, 1314440369, 635005095, 1684389723, 1408639708, 1147847829>>
      [] seed = 12 ->
           <<201685, 1242236149, 426940110, 839564144, 1587007419, 1086795394,
             1421769224, 624807600, 2093783018, 1544143785, 84720501, 115802347>>
      [] seed = 13 ->
           <<218492, 1524711398, 2049590183, 1824507802, 583632702, 1557006666,
             1522796768, 2082658478, 1405077294, 1403897847, 908284941, 1231240512>>
      [] seed = 14 ->
           <<235299, 1807186647, 1524756609, 661967813, 1727741632, 2027217938,
             1623824312, 1393025709, 716371570, 1263651909, 1731849381, 199195030>>
      [] seed = 15 ->
           <<252106, 2089661896, 999923035, 1646911471, 724366915, 349945563,
             1724851856, 703392940, 27665846, 1123405971, 407930174, 1314633195>>
      [] seed = 16 ->
           <<268913, 224653498, 475089461, 484371482, 1868475845, 820156835,
             1825879400, 13760171, 1486443769, 983160033, 1231494614, 282587713>>
      [] seed = 17 ->
           <<285720, 507128747, 2097739534, 1469315140, 865101128, 1290368107,
             1926906944, 1471611049, 797738045, 842914095, 2055059054, 1398025878>>
      [] seed = 18 ->
           <<302527, 789603996, 1572905960, 306775151, 2009210058, 1760579379,
             2027934488, 781978280, 109032321, 702668157, 731139847, 365980396>>
      [] seed = 19 ->
           <<319334, 1072079245, 1048072386, 1291718809, 1005835341, 83307004,
             2128962032, 92345511, 1567810244, 562422219, 1554704287, 1481418561>>
      [] seed = 20 ->
           <<336141, 1354554494, 523238812, 129178820, 2460624, 553518276,
             82505929, 1550196389, 879104520, 422176281, 230785080, 449373079>>
      [] seed = 21 ->
           <<352948, 1637029743, 2145888885, 1114122478, 1146569554, 1023729548,
             183533473, 860563620, 190398796, 281930343, 1054349520, 1564811244>>
      [] seed = 22 ->
           <<369755, 1919504992, 1621055311, 2099066136, 143194837, 1493940820,
             284561017, 170930851, 1649176719, 141684405, 1877913960, 532765762>>
      [] seed = 1479613294 ->
           <<2147483646, 2147466841, 1865025206, 807325631, 920198472, 1745976858,
             1416499799, 108411152, 1000099009, 309539195, 1219857332, 115801016>>
\* outcome of pseudo_poisson for one seed in floating point; -1: the budget
\* of 5*alpha draws runs out
KnownPoisson(seed, alpha) ==
    CASE seed = 62719 -> <<-1, 9, 11, 11>>[alpha]
      [] seed = 88636 -> <<-1, -1, 14, 16>>[alpha]
      [] seed = 739806647 -> <<1, 1, 1, 1>>[alpha]
      [] seed = 999999999 -> <<2, 2, 2, 2>>[alpha]
      [] seed = 123456789 -> <<1, 4, 7, 8>>[alpha]

Abs(n) == IF n < 0 THEN -n ELSE n
\* xx*mult+1 fits a 32-bit integer
FitsInt(xx, mult) == Abs(xx) <= 2147483646 \div (Abs(mult) + 1)
\* xx/GoodMod <= pn/PDen, by the largest numerator that is
RefLeq(xx, pn) ==
    IF pn >= PDen THEN TRUE
    ELSE IF pn < 0 THEN FALSE
    ELSE xx <= pn * (GoodMod \div PDen) + (pn * (GoodMod % PDen)) \div PDen
\* the product of the first k draws of buf
RECURSIVE RefProd(_, _, _)
RefProd(buf, k, mod) ==
    IF k = 0 THEN FixOne
    ELSE FixMul([int |-> 0, num |-> buf[k]], RefProd(buf, k - 1, mod), mod)

EngineFns == {"pseudo_uniform_bad", "pseudo_uniform_good"}
GoodRun == eng.mult = GoodMult /\ eng.mod = GoodMod

\* --------------------------------------------------------------- claims

\* C1: for every multiplier, modulus > 0, seed and count >= 1, each engine
\* state x satisfies 0 <= x < modulus, so every emitted x/modulus is in [0,1).
C1_StateInRange ==
    eng.mod > 0 =>
        /\ x = Unset \/ (0 <= x /\ x < eng.mod)
        /\ \A k \in 1..Len(U) : 0 <= U[k] /\ U[k] < eng.mod
        /\ (pc = "done" /\ call.fn \in EngineFns /\ ret.status = "ok") =>
               \A k \in 1..Len(ret.value) :
                   0 <= ret.value[k] /\ ret.value[k] < call.mod
C1_Witness ==
    /\ pc = "engine"
    /\ i >= 2
    /\ eng.seed < 0
    /\ eng.mult < 0
    /\ eng.mod = GoodMod
    /\ x > 1073741824

\* C2: the i-th emitted value is x_i/modulus with x_0 = (seed*mult+1) mod
\* modulus and x_i = (x_(i-1)*mult+1) mod modulus; the increment is 1 and
\* nothing else enters: entries not yet computed are the zeros of np.zeros.
C2_Recurrence ==
    i >= 1 =>
        /\ Len(U) = eng.size
        /\ i <= eng.size
        /\ x = U[i]
        /\ \A k \in 1..i :
              LET prev == IF k = 1 THEN eng.seed ELSE U[k - 1]
              IN  /\ FitsInt(prev, eng.mult) =>
                         U[k] = (prev * eng.mult + 1) % eng.mod
                  /\ (GoodRun /\ k <= KnownLen) =>
                         U[k] = KnownGood(eng.seed)[k]
        /\ \A k \in (i + 1)..Len(U) : U[k] = 0
        /\ (pc = "done" /\ call.fn \in EngineFns /\ ret.status = "ok") =>
               /\ ret.value = U
               /\ eng = [mult |-> call.mult, mod |-> call.mod,
                         seed |-> call.seed, size |-> call.size]
C2_Witness ==
    /\ pc = "done"
    /\ call.fn = "pseudo_uniform_good"
    /\ call.mult = GoodMult
    /\ call.mod = GoodMod
    /\ call.seed = DefaultSeed
    /\ call.size >= 3
    /\ ret.status = "ok"
    /\ ret.value[3] = 2063849572

\* C3: two runs of the engine (or of pseudo_uniform) with the same arguments
\* return the same sequence, whatever calls were made before or between.
C3_Deterministic ==
    (pc = "done" /\ memo.set /\ memo.call = call) => memo.ret = ret
C3_Witness ==
    /\ pc = "done"
    /\ memo.set
    /\ memo.call = call
    /\ call.fn = "pseudo_uniform"
    /\ call.size >= 2
    /\ ret.status = "ok"

ValidCall ==
    CASE call.fn \in EngineFns -> call.mod > 0 /\ call.size >= 0
      [] call.fn = "pseudo_uniform" -> call.low < call.high /\ call.size >= 0
      [] call.fn = "pseudo_bernoulli" ->
             0 <= call.pn /\ call.pn <= PDen /\ call.size >= 0
      [] call.fn = "pseudo_binomial" ->
             call.n >= 0 /\ 0 <= call.pn /\ call.pn <= PDen /\ call.size >= 0
      [] call.fn = "pseudo_poisson" -> call.alpha > 0 /\ call.size >= 0
      [] OTHER -> FALSE

\* C4: for every count >= 0 the engine and each sampler, called with valid
\* parameters, returns exactly count elements; count = 0 returns an empty
\* sequence and is not an error.
C4_CountReturned ==
    (pc = "done" /\ ValidCall) =>
        /\ ret.status = "ok"
        /\ Len(ret.value) = call.size

\* C5: for low < high and count >= 1 each value of the uniform sampler,
\* low + (high-low)*x/modulus in exact arithmetic, is in [low, high).
C5_UniformInRange ==
    (pc = "done" /\ call.fn = "pseudo_uniform" /\ call.low < call.high
        /\ call.size >= 1) =>
        /\ ret.status = "ok"
        /\ Len(ret.value) = call.size
        /\ \A k \in 1..Len(ret.value) :
              /\ call.low <= ret.value[k].int
              /\ ret.value[k].int < call.high
              /\ 0 <= ret.value[k].num
              /\ ret.value[k].num < GoodMod
C5_Witness ==
    /\ pc = "done"
    /\ call.fn = "pseudo_uniform"
    /\ call.low = 2
    /\ call.high = 7
    /\ call.size >= 2
    /\ ret.status = "ok"
    /\ ret.value[2].int = 6

\* C6: for 0 <= p <= 1 and count >= 1 the i-th Bernoulli output is 1 exactly
\* when the i-th draw of the call's single engine run is <= p, else 0.
C6_Bernoulli ==
    (pc = "done" /\ call.fn = "pseudo_bernoulli" /\ call.size >= 1
        /\ 0 <= call.pn /\ call.pn <= PDen) =>
        /\ ret.status = "ok"
        /\ Len(seeds) = 1
        /\ eng = [mult |-> GoodMult, mod |-> GoodMod, seed |-> seeds[1],
                  size |-> call.size]
        /\ Len(ret.value) = call.size
        /\ \A k \in 1..Len(ret.value) :
              /\ ret.value[k] \in {0, 1}
              /\ ret.value[k] = 1 <=> RefLeq(KnownGood(seeds[1])[k], call.pn)
C6_Witness ==
    /\ pc = "done"
    /\ call.fn = "pseudo_bernoulli"
    /\ call.pn = 0
    /\ call.size >= 2
    /\ ret.status = "ok"
    /\ ret.value[1] = 1
    /\ ret.value[2] = 0

\* C7: for trials >= 1, 0 <= p <= 1 and count >= 1 each Binomial outcome is
\* the number of draws <= p among exactly `trials` draws of one engine run
\* seeded for that outcome, hence an integer in [0, trials].
C7_Binomial ==
    (call.fn = "pseudo_binomial" /\ call.n >= 1
        /\ 0 <= call.pn /\ call.pn <= PDen) =>
        /\ Len(seeds) = Len(acc) + (IF pc = "engine" THEN 1 ELSE 0)
        /\ pc = "engine" =>
               eng = [mult |-> GoodMult, mod |-> GoodMod,
                      seed |-> seeds[Len(seeds)], size |-> call.n]
        /\ \A k \in 1..Len(acc) :
              /\ acc[k] = Cardinality({t \in 1..call.n :
                              RefLeq(KnownGood(seeds[k])[t], call.pn)})
              /\ 0 <= acc[k]
              /\ acc[k] <= call.n
        /\ pc = "done" =>
               /\ ret.status = "ok"
               /\ ret.value = acc
               /\ Len(acc) = call.size
C7_Witness ==
    /\ pc = "done"
    /\ call.fn = "pseudo_binomial"
    /\ call.n >= 2
    /\ call.size >= 2
    /\ ret.status = "ok"
    /\ ret.value[1] = 1
    /\ ret.value[2] = 2

\* C8: the Binomial sampler with trials = 0 (valid p, count >= 1) returns 0
\* for every outcome and raises no error.
C8_ZeroTrials ==
    (pc = "done" /\ call.fn = "pseudo_binomial" /\ call.n = 0
        /\ call.size >= 1) =>
        /\ ret.status = "ok"
        /\ ret.value = [k \in 1..call.size |-> 0]

\* C9: for integer alpha > 0 each Poisson outcome comes from one engine run
\* of 5*alpha draws, with P from 1 and X from 0: while P >= e^(-alpha),
\* P := P*U[X] and X := X+1; the emitted X is the smallest k with
\* U[0]*...*U[k-1] < e^(-alpha).
C9_Poisson ==
    (call.fn = "pseudo_poisson" /\ call.alpha >= 1) =>
        /\ pc = "engine" =>
               /\ Len(seeds) = Len(acc) + 1
               /\ eng = [mult |-> GoodMult, mod |-> GoodMod,
                         seed |-> seeds[Len(seeds)],
                         size |-> BudgetFactor * call.alpha]
        /\ (pc = "poi_while" \/ (pc = "poi_for" /\ Len(acc) >= 1)) =>
               /\ Len(U) = BudgetFactor * call.alpha
               /\ X = j
               /\ P = RefProd(U, j, GoodMod)
               /\ \A k \in 0..(j - 1) :
                      RefProd(U, k, GoodMod) >= ExpNeg(call.alpha)
        /\ (pc = "poi_for" /\ Len(acc) >= 1) =>
               /\ acc[Len(acc)] = X
               /\ P < ExpNeg(call.alpha)
        /\ \A k \in 1..Len(acc) : acc[k] = KnownPoisson(seeds[k], call.alpha)
        /\ (pc = "done" /\ ret.status = "ok") => ret.value = acc
C9_Witness ==
    /\ pc = "done"
    /\ call.fn = "pseudo_poisson"
    /\ call.alpha = 2
    /\ call.size >= 2
    /\ ret.status = "ok"
    /\ ret.value[1] = 9
    /\ ret.value[2] = 1

\* C10: when the running product is still >= e^(-alpha) after all 5*alpha
\* draws of an outcome are consumed, the Poisson call fails with an error; it
\* returns no truncated or wrong count and reads no draw beyond the budget.
C10_Exhausted ==
    /\ pc = "poi_while" /\ call.alpha >= 1
    /\ P >= ExpNeg(call.alpha)
    /\ j >= BudgetFactor * call.alpha
C10_BudgetError ==
    /\ [](pc = "poi_while" => j <= Len(U))
    /\ []((pc = "done" /\ call.fn = "pseudo_poisson" /\ call.alpha >= 1
            /\ ret.status = "ok") =>
              \A k \in 1..Len(seeds) :
                  /\ KnownPoisson(seeds[k], call.alpha) # -1
                  /\ ret.value[k] = KnownPoisson(seeds[k], call.alpha))
    /\ [][C10_Exhausted =>
            (pc' = "done" /\ ret'.status = "IndexError" /\ ret'.value = <<>>
             /\ acc' = acc /\ j' = j)]_vars
C10_Witness ==
    /\ pc = "done"
    /\ call.fn = "pseudo_poisson"
    /\ call.alpha >= 1
    /\ ret.status = "IndexError"
    /\ j = BudgetFactor * call.alpha
    /\ Len(acc) >= 1

\* C11: when a draw of U1 is exactly 0 the Normal sampler keeps it away from
\* the logarithm (it resamples once, and fails with a DomainError if that
\* draw is 0 too); no value it returns is infinite or NaN.
C11_ZeroDraw ==
    (pc = "done" /\ call.fn = "pseudo_normal" /\ call.size >= 1) =>
        /\ ret.status \in {"ok", "DomainError"}
        /\ ret.status = "ok" =>
               \A k \in 1..Len(ret.value) :
                   /\ ret.value[k].cls = "finite"
                   /\ ret.value[k].u1 # 0

\* C12: for rate > 0 and count >= 1 the Exponential sampler takes the
\* logarithm of 1 - U > 0 only, and every value it returns is finite and >= 0.
C12_ExpFinite ==
    (pc = "done" /\ call.fn = "pseudo_exp" /\ call.lamb > 0
        /\ call.size >= 1) =>
        /\ ret.status = "ok"
        /\ Len(ret.value) = call.size
        /\ \A k \in 1..Len(ret.value) :
              /\ ret.value[k].arg = GoodMod - KnownGood(seeds[1])[k]
              /\ ret.value[k].arg > 0
              /\ ret.value[k].cls = "finite"
              /\ ret.value[k].sgn >= 0
C12_Witness ==
    /\ pc = "done"
    /\ call.fn = "pseudo_exp"
    /\ call.lamb = 2
    /\ call.size >= 2
    /\ seeds[1] = 739806647
    /\ ret.status = "ok"
    /\ ret.value[1].sgn = 0
    /\ ret.value[2].sgn = 1

\* C13: pseudo_uniform called with low > high raises a ConfigurationError and
\* returns no numeric result.
C13_LowAboveHigh ==
    (pc = "done" /\ call.fn = "pseudo_uniform" /\ call.low > call.high
        /\ call.size >= 1) =>
        /\ ret.status = "ConfigurationError"
        /\ ret.value = <<>>

\* C14: pseudo_bernoulli and pseudo_binomial called with p outside [0, 1]
\* raise a ConfigurationError and return no 0/1 values or counts.
C14_ProbOutside ==
    (/\ pc = "done"
     /\ call.fn \in {"pseudo_bernoulli", "pseudo_binomial"}
     /\ call.pn < 0 \/ call.pn > PDen
     /\ call.size >= 1
     /\ call.fn = "pseudo_binomial" => call.n >= 1) =>
        /\ ret.status = "ConfigurationError"
        /\ ret.value = <<>>

\* C15: pseudo_poisson called with alpha <= 0 and count >= 1 ends in an
\* error and returns no numeric result: no outcome is ever produced, and the
\* call leaves with the engine's IndexError (alpha = 0, a buffer of 0 draws)
\* or ValueError (alpha < 0, a negative buffer size).
C15_RateNotPositive ==
    (call.fn = "pseudo_poisson" /\ call.alpha <= 0 /\ call.size >= 1) =>
        /\ pc \in {"poi_for", "done"}
        /\ acc = <<>>
        /\ pc = "done" =>
               /\ ret.status = (IF call.alpha = 0 THEN "IndexError"
                                ELSE "ValueError")
               /\ ret.value = <<>>
               /\ Len(seeds) = 1
C15_Witness ==
    /\ pc = "done"
    /\ call.fn = "pseudo_poisson"
    /\ call.alpha = 0
    /\ call.size >= 1
    /\ ret.status = "IndexError"
    /\ U = <<>>

InvalidField ==
    \/ call.fn = "pseudo_exp" /\ call.lamb <= 0
    \/ call.fn = "pseudo_normal" /\ call.sigma < 0
    \/ call.fn = "pseudo_binomial" /\ call.n < 0

\* C16: a call with an invalid field (rate <= 0 for pseudo_exp, sigma < 0
\* for pseudo_normal, n < 0 for pseudo_binomial) fails with a
\* ConfigurationError at entry: at no point of the call has the clock been
\* read for a seed or an engine state been computed, and the call ends in
\* that error with no sample.
C16_EntryValidation ==
    (InvalidField /\ call.size >= 1) =>
        /\ seeds = <<>>
        /\ x = Unset
        /\ U = <<>>
        /\ pc = "done" =>
               /\ ret.status = "ConfigurationError"
               /\ ret.value = <<>>

\* C17: pseudo_uniform_bad(mult=5, mod=11, seed=3) run for 1000 values emits
\* at most 10 distinct values, and its sequence repeats with a period of at
\* most mod - 1 = 10.
C17_ShortPeriod ==
    (pc \in {"engine", "done"} /\ call.size = DemoSize) =>
        /\ Cardinality({U[k] : k \in 1..i}) <= BadMod - 1
        /\ \E p \in 1..(BadMod - 1) :
              \A k \in 1..(i - p) : U[k + p] = U[k]
        /\ pc = "done" =>
               /\ ret.status = "ok"
               /\ Len(ret.value) = DemoSize
               /\ Cardinality({ret.value[k] : k \in 1..DemoSize})
                      <= BadMod - 1
C17_Witness ==
    /\ pc = "done"
    /\ call = [fn |-> "pseudo_uniform_bad", mult |-> BadMult, mod |-> BadMod,
               seed |-> DemoSeed, size |-> DemoSize]
    /\ ret.status = "ok"
    /\ Len(ret.value) = DemoSize
    /\ {ret.value[k] : k \in 1..DemoSize} = {3, 4, 5, 7, 10}

SamplerFns == {"pseudo_bernoulli", "pseudo_binomial", "pseudo_poisson",
               "pseudo_normal", "pseudo_exp"}
\* this step starts a run of the engine (which may fail on its buffer)
RunStarts ==
    \/ pc' = "engine" /\ i' = 1
    \/ /\ pc \in {"idle", "bin_for", "poi_for"}
       /\ pc' = "done"
       /\ ret'.status \in {"IndexError", "ValueError"}
\* the clock reads of a call, one per engine run, as the code places them
ReadsPerRun ==
    /\ call.fn \in {"pseudo_bernoulli", "pseudo_exp"} => Len(seeds) = 1
    /\ call.fn = "pseudo_normal" =>
           /\ Len(seeds) \in {1, 2}
           /\ (pc = "done" /\ ret.status = "ok") => Len(seeds) = 2
    /\ call.fn \in {"pseudo_binomial", "pseudo_poisson"} =>
           /\ Len(seeds) \in {Len(acc), Len(acc) + 1}
           /\ Len(seeds) <= call.size
           /\ (pc = "done" /\ ret.status = "ok") => Len(seeds) = call.size
    /\ (call.fn \in SamplerFns /\ pc = "engine") =>
           /\ eng.seed = seeds[Len(seeds)]
           /\ U[1] = KnownGood(seeds[Len(seeds)])[1]

\* C18, with its freshness clause: every engine run of a sampler has its own
\* clock read
\* (one per call for Bernoulli and Exponential, two for Normal, one per
\* outcome for Binomial and Poisson), and no run is seeded with the default
\* seed 123456789 or with a seed an earlier run of the same call used.
C18_FreshSeeds ==
    call.fn \in SamplerFns =>
        /\ ReadsPerRun
        /\ \A k \in 1..Len(seeds) : seeds[k] # DefaultSeed
        /\ \A k, l \in 1..Len(seeds) : k # l => seeds[k] # seeds[l]

\* C18, placement and number of reads: every engine run of a sampler is
\* seeded by a clock read made
\* in the same step, just before it, and that read seeds no other run; the
\* reads are one per call for Bernoulli and Exponential, two for Normal, one
\* per outcome for Binomial and Poisson.  The seed is whatever the clock
\* gives: it may equal 123456789 or the seed of an earlier run.
C18_SeedPerRun ==
    /\ [](call.fn \in SamplerFns => ReadsPerRun)
    /\ [][call'.fn \in SamplerFns =>
            IF RunStarts
              THEN seeds' = Append(IF pc = "idle" THEN <<>> ELSE seeds,
                                   eng'.seed)
              ELSE seeds' = seeds]_vars
C18_Witness ==
    /\ pc = "done"
    /\ call.fn = "pseudo_normal"
    /\ call.size >= 2
    /\ ret.status = "ok"
    /\ seeds = <<DefaultSeed, DefaultSeed>>

\* C19: every call terminates, with a result or with an error.  A run of
\* the engine starts at i = 1 and each iteration of its loop adds 1 to i
\* until i = size, so it makes exactly size - 1 iterations; the inner loop
\* of pseudo_poisson starts at 0 iterations, counts each one, and never
\* makes more than 5*alpha before the outcome is emitted or the call fails.
C19_Terminates ==
    /\ [](pc = "engine" => (1 <= i /\ i <= eng.size))
    /\ [][pc = "engine" =>
            IF i < eng.size
              THEN pc' = "engine" /\ i' = i + 1 /\ eng' = eng
              ELSE pc' # "engine" \/ i' = 1]_vars
    /\ [](pc = "poi_while" => (0 <= j /\ j <= BudgetFactor * call.alpha))
    /\ [][pc' = "poi_while" =>
            IF pc = "poi_while" THEN j' = j + 1 ELSE j' = 0]_vars
    /\ (pc # "idle") ~> (pc = "done")
C19_Witness ==
    /\ pc = "done"
    /\ call.fn = "pseudo_poisson"
    /\ call.alpha = 2
    /\ call.size = 1
    /\ ret.status = "ok"
    /\ j = 9
    /\ i = BudgetFactor * call.alpha

\* C20: calls share no state.  Two calls of pseudo_bernoulli interleaved
\* statement by statement each return what the call returns when it runs
\* alone with the same clock reading: two finished calls with the same
\* arguments and the same seed have the same result, however each of them
\* was interleaved, and that result is the one the seed determines.
C20_Isolated ==
    /\ (pc = "done" /\ other.fr.pc = "done" /\ call = other.fr.call
          /\ seeds = other.fr.seeds) => ret = other.fr.ret
    /\ (pc = "done" /\ call.fn = "pseudo_bernoulli" /\ call.size >= 1) =>
          /\ ret.status = "ok"
          /\ Len(ret.value) = call.size
          /\ \A k \in 1..call.size :
                ret.value[k] = 1 <=> RefLeq(KnownGood(seeds[1])[k], call.pn)
C20_Witness ==
    /\ pc = "done"
    /\ other.fr.pc = "done"
    /\ call = other.fr.call
    /\ seeds = other.fr.seeds
    /\ call.size >= 3
    /\ ret.status = "ok"
    /\ other.cut
    /\ ~other.mine

\* C21, with its 62 bits: in the good configuration the product x*mult taken
\* at the largest state, x = modulus - 1, is at least 2^61 (no state gives a
\* wider product, so this is what "some reachable state" comes to), and the
\* engine's next state is the exact residue.
C21_SixtyTwoBits ==
    (GoodRun /\ pc = "engine" /\ i < eng.size /\ x = GoodMod - 1) =>
        ProductBits(x, eng.mult) >= 62

\* C21, with the width the product has: in the good configuration every
\* product x*mult the engine forms fits 46 bits (x < 2^31, mult < 2^15), the
\* largest state reaches 46, and every state is the exact residue, the one
\* unbounded integer arithmetic gives.
C21_ExactProduct ==
    (GoodRun /\ i >= 1 /\ call.size = OrbitLen) =>
        /\ \A k \in 1..i :
              /\ ProductBits(U[k], eng.mult) <= 46
              /\ U[k] = KnownOrbit(eng.seed)[k]
        /\ x = GoodMod - 1 => ProductBits(x, eng.mult) = 46
C21_Witness ==
    /\ GoodRun
    /\ pc = "engine"
    /\ call.size = OrbitLen
    /\ i = 2
    /\ U[1] = GoodMod - 1
    /\ ProductBits(U[1], eng.mult) = 46
    /\ U[2] = 2147466841

\* C22: for alpha > 0 every value pseudo_poisson emits is at least 1: P
\* starts at 1 >= e^(-alpha), so the loop body runs before anything is
\* emitted, and 0 is never emitted.
C22_AtLeastOne ==
    (call.fn = "pseudo_poisson" /\ call.alpha >= 1) =>
        /\ (pc = "poi_while" /\ j = 0) =>
               (P = FixOne /\ P >= ExpNeg(call.alpha))
        /\ \A k \in 1..Len(acc) : acc[k] >= 1
        /\ (pc = "done" /\ ret.status = "ok") =>
               \A k \in 1..Len(ret.value) : ret.value[k] >= 1
C22_Witness ==
    /\ pc = "done"
    /\ call.fn = "pseudo_poisson"
    /\ call.alpha >= 1
    /\ ret.status = "ok"
    /\ ret.value = <<1, 1>>
    /\ seeds = <<739806647, 739806647>>

RECURSIVE Gcd(_, _)
Gcd(a, b) == IF b = 0 THEN a ELSE Gcd(b, a % b)
\* the state before y under x -> (x*mult+1) % mod, given inv with
\* inv*mult = 1 modulo mod
StateBefore(y, inv, mod) == MulDivMod(AddMod(y, mod - 1, mod), inv, mod)[2]

\* C23: when mult and mod are coprime (both shipped configurations) the
\* update x -> (x*mult+1) % mod is a bijection of [0, mod): distinct seeds in
\* [0, mod) give distinct first states, the update has an inverse, and the
\* sequence is purely periodic: the first state comes back within mod steps.
C23_Bijection ==
    (pc \in {"engine", "done"} /\ call.size = OrbitLen /\ i >= 1
        /\ Gcd(eng.mod, eng.mult) = 1) =>
        /\ (0 <= eng.seed /\ eng.seed < eng.mod) =>
               \A s \in OrbitSeeds :
                   (0 <= s /\ s < eng.mod /\ s # eng.seed) =>
                       LcgNext(s, eng.mult, eng.mod) # U[1]
        /\ eng.mod = BadMod =>
               /\ \A a, b \in 0..(BadMod - 1) :
                      a # b => LcgNext(a, eng.mult, BadMod)
                                   # LcgNext(b, eng.mult, BadMod)
               /\ {LcgNext(a, eng.mult, BadMod) : a \in 0..(BadMod - 1)}
                      = 0..(BadMod - 1)
               /\ i > BadMod => \E p \in 1..BadMod : U[1 + p] = U[1]
        /\ eng.mod = GoodMod =>
               /\ MulDivMod(eng.mult, 1407677000, GoodMod)[2] = 1
               /\ \A k \in 2..i :
                      StateBefore(U[k], 1407677000, GoodMod) = U[k - 1]
C23_Witness ==
    /\ pc = "done"
    /\ call.fn = "pseudo_uniform_bad"
    /\ call.seed = 0
    /\ call.size = OrbitLen
    /\ ret.status = "ok"
    /\ ret.value[1] = 1
    /\ ret.value[2] = 6
    /\ ret.value[6] = 1

\* C25: in the bad configuration (mult 5, mod 11) the state 8 is a fixed
\* point: a seed congruent to 8 modulo 11 gives the constant sequence 8/11;
\* any other seed gives a sequence of period exactly 5 that never has 8.
C25_FixedPoint ==
    (call.fn = "pseudo_uniform_bad" /\ call.size = OrbitLen /\ i >= 1) =>
        /\ LcgNext(8, eng.mult, eng.mod) = 8
        /\ IF eng.seed % BadMod = 8
             THEN \A k \in 1..i : U[k] = 8
             ELSE \A k \in 1..i :
                     /\ U[k] # 8
                     /\ k > 5 => U[k] = U[k - 5]
                     /\ \A p \in 1..4 : k > p => U[k] # U[k - p]
        /\ (pc = "done" /\ eng.seed % BadMod = 8) =>
               ret.value = [k \in 1..OrbitLen |-> 8]
C25_Witness ==
    /\ pc = "done"
    /\ call.fn = "pseudo_uniform_bad"
    /\ call.seed = 19
    /\ call.size = OrbitLen
    /\ ret.status = "ok"
    /\ ret.value = [k \in 1..OrbitLen |-> 8]

\* C24: re-seeding continues the sequence.  The run of n + m values is the
\* run of n values followed by the run of m values of a new engine seeded
\* with the last state of the run of n; so the run of n is a prefix of the
\* run of n + m.
C24_Reseed ==
    /\ (memo.set /\ other.fr.pc = "done") =>
          /\ memo.ret.status = "ok"
          /\ \A k \in 1..memo.call.size :
                memo.ret.value[k] = other.fr.ret.value[k]
    /\ (pc = "done" /\ memo.set /\ other.fr.pc = "done") =>
          /\ ret.status = "ok"
          /\ Len(ret.value) = other.fr.call.size - memo.call.size
          /\ memo.ret.value \o ret.value = other.fr.ret.value
C24_Witness ==
    /\ pc = "done"
    /\ memo.set
    /\ other.fr.pc = "done"
    /\ other.fr.call = [fn |-> "pseudo_uniform_good", mult |-> GoodMult,
                        mod |-> GoodMod, seed |-> DefaultSeed, size |-> 3]
    /\ memo.call.size = 1
    /\ call.seed = 469049722
    /\ ret.value = <<2053693165, 2063849572>>
====
